---- MODULE Spec2Model ----
(***************************************************************************)
(* Model of tylersul/atlas-search-overviews.                                *)
(*                                                                         *)
(*   src/unnamed/part_000           index script, variant with             *)
(*                                  showIndexDefinitions, createIndex,     *)
(*                                  updateIndex and ensureIndex            *)
(*   src/scripts/create-indexes.ts  index script, variant without them     *)
(*   src/embeddings/openai.ts       getEmbeddingFromAzureSDK                *)
(*                                                                         *)
(* Three specifications share the variables:                               *)
(*   Spec       one run of main() of either script variant                  *)
(*   SpecEnsure one call of ensureIndex(db, spec) on a connected db         *)
(*   SpecEmbed  one call of getEmbeddingFromAzureSDK(text)                  *)
(* An async function is cut at its await points; pc is its position.       *)
(***************************************************************************)
EXTENDS Integers, Sequences, FiniteSets, TLC

VARIABLES
    variant,     \* which program runs: "part_000", "create-indexes", "ensureIndex", "embedding"
    argv,        \* command line flags given to the script
    env,         \* which of MONGODB_URI / MONGODB_DB are set (non-empty)
    asked,       \* the questions prompt() has asked
    colName,     \* answer to "Enter collection name: "
    pc,          \* position of the running function
    connected,   \* the MongoClient holds an open connection
    remote,      \* search index names present on each collection
    remote0,     \* remote as it was when the run started
    fs,          \* content of each file of config/indexes/
    spec,        \* the IndexSpec passed to ensureIndex
    existing,    \* names returned by the last listExistingIndexes
    listThrew,   \* listSearchIndexes / toArray threw inside the last listExistingIndexes
    definition,  \* value returned by loadDefinition
    ops,         \* remote index operations and file loads issued, in order
    log,         \* console lines written, in order
    err,         \* the error that ended the function, "none" if none
    openaiEnv,   \* which OPENAI_* variables are set
    text,        \* input text of getEmbeddingFromAzureSDK
    embCalls,    \* embeddings.create requests issued
    response,    \* what the embeddings endpoint answered
    result       \* value getEmbeddingFromAzureSDK resolved to

vars == <<variant, argv, env, asked, colName, pc, connected, remote, remote0, fs,
          spec, existing, listThrew, definition, ops, log, err, openaiEnv, text,
          embCalls, response, result>>

mainVars == <<variant, argv, env, remote0, fs, spec, definition,
              openaiEnv, text, embCalls, response, result>>

-----------------------------------------------------------------------------
(* Bounds *)

\* largest number of result objects in an embeddings response
MaxResults == 2

-----------------------------------------------------------------------------
(* Static data *)

Collections == {"products", "docs", "tickets"}

IndexNames == {"vector", "hybrid"}

ALL_SPECS ==
    << [col |-> "products", name |-> "vector", file |-> "products.vector.json"],
       [col |-> "products", name |-> "hybrid", file |-> "products.hybrid.json"],
       [col |-> "docs",     name |-> "vector", file |-> "docs.vector.json"],
       [col |-> "tickets",  name |-> "hybrid", file |-> "tickets.hybrid.json"] >>

SpecIdx == 1..Len(ALL_SPECS)

Files == {ALL_SPECS[i].file : i \in SpecIdx}

\* a file is missing, holds text that is not JSON, or holds one of two JSON documents
FileContent == {"missing", "not json", "{A}", "{B}"}

NoSpec == [col |-> "-", name |-> "-", file |-> "-"]

\* flags of the usage comment; only = {} stands for "no --only flag"
OnlyChoices == {{}, {"products"}, {"products", "docs"}}

ArgvChoices == [dryRun : BOOLEAN, only : OnlyChoices]

NoArgv == [dryRun |-> FALSE, only |-> {}]

EnvChoices == [uri : BOOLEAN, db : BOOLEAN]

OpenAIParams == {"OPENAI_API_KEY", "OPENAI_BASE_URL", "OPENAI_API_VERSION",
                 "OPENAI_EMBEDDING_MODEL"}

Texts == {"hello", "atlas", "search"}

Embeddings == {<<1, 2>>, <<3, 4>>}

\* the remote answers with an error or with 0..MaxResults result objects
RECURSIVE SeqsUpTo(_, _)
SeqsUpTo(S, n) ==
    IF n = 0 THEN {<<>>}
    ELSE LET shorter == SeqsUpTo(S, n - 1)
         IN  shorter \cup {Append(s, x) : s \in {t \in shorter : Len(t) = n - 1}, x \in S}

Responses ==
    {[ok |-> FALSE, data |-> <<>>]} \cup
    {[ok |-> TRUE, data |-> d] : d \in SeqsUpTo(Embeddings, MaxResults)}

-----------------------------------------------------------------------------
(* Records written to ops and log *)

Op(o, c, n, d) == [op |-> o, col |-> c, name |-> n, def |-> d]

Line(k, c, ns) == [kind |-> k, col |-> c, names |-> ns]

IsMutation(o) == o.op \in {"createSearchIndex", "updateSearchIndex"}

\* the createSearchIndex / updateSearchIndex calls issued so far
Calls == SelectSeq(ops, IsMutation)

-----------------------------------------------------------------------------
(* Pure helpers *)

\* a loader with a fallback: a missing or unparsable file yields an empty
\* definition instead of an error
LoadDefinitionLenient(files, file) ==
    CASE files[file] = "{B}" -> [threw |-> FALSE, error |-> "none", value |-> "DefB"]
      [] OTHER               -> [threw |-> FALSE, error |-> "none", value |-> "DefA"]

\* JSON.parse(readFileSync(full, "utf8")): throws on a missing file (ENOENT)
\* and on text that is not JSON (SyntaxError), else yields the parsed document
LoadDefinition(files, file) ==
    CASE files[file] = "missing"  -> [threw |-> TRUE,  error |-> "ENOENT",      value |-> "none"]
      [] files[file] = "not json" -> [threw |-> TRUE,  error |-> "SyntaxError", value |-> "none"]
      [] files[file] = "{A}"      -> [threw |-> FALSE, error |-> "none",        value |-> "DefA"]
      [] files[file] = "{B}"      -> [threw |-> FALSE, error |-> "none",        value |-> "DefB"]

\* listExistingIndexes: the names on the collection, or [] with the failure
\* logged when listSearchIndexes / toArray throws
ListExistingIndexes(rem, c, fails) ==
    IF fails
    THEN [names |-> {}, lines |-> <<Line("Failed to list indexes", c, {})>>]
    ELSE [names |-> rem[c], lines |-> <<>>]

\* createIndex helper: one createSearchIndex(definition), then a log line
CreateIndex(c, n, d) ==
    [ops |-> <<Op("createSearchIndex", c, n, d)>>, lines |-> <<Line("Created index", c, {n})>>]

\* updateIndex helper: one updateSearchIndex(name, definition), then a log line
UpdateIndex(c, n, d) ==
    [ops |-> <<Op("updateSearchIndex", c, n, d)>>, lines |-> <<Line("Updated index", c, {n})>>]

-----------------------------------------------------------------------------
(* main() of the index script, both variants *)

InitMain ==
    /\ variant \in {"part_000", "create-indexes"}
    /\ argv \in ArgvChoices
    /\ env \in EnvChoices
    /\ asked = {}
    /\ colName = "-"
    /\ pc = "uri"
    /\ connected = FALSE
    /\ remote \in [Collections -> SUBSET IndexNames]
    /\ remote0 = remote
    /\ fs = [f \in Files |-> "{A}"]
    /\ spec = NoSpec
    /\ existing = {}
    /\ listThrew = FALSE
    /\ definition = "none"
    /\ ops = <<>>
    /\ log = <<>>
    /\ err = "none"
    /\ openaiEnv = [p \in OpenAIParams |-> FALSE]
    /\ text = "-"
    /\ embCalls = <<>>
    /\ response = [ok |-> FALSE, data |-> <<>>]
    /\ result = <<>>

\* const uri = process.env.MONGODB_URI || await prompt("Enter your MongoDB URI: ")
ResolveUri ==
    /\ pc = "uri"
    /\ asked' = IF env.uri THEN asked ELSE asked \cup {"uri"}
    /\ pc' = "db"
    /\ UNCHANGED <<colName, connected, remote, existing, listThrew, ops, log, err>>
    /\ UNCHANGED mainVars

\* const dbName = process.env.MONGODB_DB || await prompt("Enter database name: ")
ResolveDb ==
    /\ pc = "db"
    /\ asked' = IF env.db THEN asked ELSE asked \cup {"db"}
    /\ pc' = "col"
    /\ UNCHANGED <<colName, connected, remote, existing, listThrew, ops, log, err>>
    /\ UNCHANGED mainVars

\* const colName = await prompt("Enter collection name: ")
PromptCol ==
    /\ pc = "col"
    /\ \E c \in Collections : colName' = c
    /\ asked' = asked \cup {"col"}
    /\ pc' = "connect"
    /\ UNCHANGED <<connected, remote, existing, listThrew, ops, log, err>>
    /\ UNCHANGED mainVars

\* main().catch(console.error): the rejection is logged, nothing else runs
Caught(e) ==
    /\ pc' = "caught"
    /\ err' = e
    /\ log' = Append(log, Line("error", "-", {}))

\* new MongoClient(uri); await client.connect()
Connect ==
    /\ pc = "connect"
    /\ \/ /\ connected' = TRUE
          /\ pc' = "list"
          /\ UNCHANGED <<log, err>>
       \/ /\ Caught("connect failed")
          /\ UNCHANGED connected
    /\ UNCHANGED <<asked, colName, remote, existing, listThrew, ops>>
    /\ UNCHANGED mainVars

\* const indexes = await listExistingIndexes(db, colName); console.log(...)
MainList ==
    /\ pc = "list"
    /\ \E fails \in BOOLEAN :
          LET r == ListExistingIndexes(remote, colName, fails)
          IN  /\ existing' = r.names
              /\ listThrew' = fails
              /\ log' = log \o r.lines \o <<Line("Indexes on", colName, r.names)>>
    /\ ops' = Append(ops, Op("listSearchIndexes", colName, "-", "-"))
    /\ pc' = IF variant = "part_000" THEN "show" ELSE "close"
    /\ UNCHANGED <<asked, colName, connected, remote, err>>
    /\ UNCHANGED mainVars

\* a refresh slipped into the inspection: every listed index is updated in place
MainShowRefreshing ==
    /\ pc = "show"
    /\ ops' = ops \o <<Op("listSearchIndexes", colName, "-", "-")>>
                  \o (IF remote[colName] = {} THEN <<>>
                      ELSE UpdateIndex(colName, CHOOSE n \in remote[colName] : TRUE, "DefA").ops)
    /\ log' = Append(log, Line("Index definitions for", colName, remote[colName]))
    /\ pc' = "close"
    /\ UNCHANGED <<asked, colName, connected, remote, existing, listThrew, err>>
    /\ UNCHANGED mainVars

\* await showIndexDefinitions(db, colName): the listing is not guarded
MainShow ==
    /\ pc = "show"
    /\ ops' = Append(ops, Op("listSearchIndexes", colName, "-", "-"))
    /\ \/ /\ Caught("listSearchIndexes failed")
       \/ /\ remote[colName] = {}
          /\ log' = Append(log, Line("No indexes found", colName, {}))
          /\ pc' = "close"
          /\ UNCHANGED err
       \/ /\ remote[colName] # {}
          /\ log' = Append(log, Line("Index definitions for", colName, remote[colName]))
          /\ pc' = "close"
          /\ UNCHANGED err
    /\ UNCHANGED <<asked, colName, connected, remote, existing, listThrew>>
    /\ UNCHANGED mainVars

\* await client.close()
MainClose ==
    /\ pc = "close"
    /\ connected' = FALSE
    /\ pc' = "done"
    /\ UNCHANGED <<asked, colName, remote, existing, listThrew, ops, log, err>>
    /\ UNCHANGED mainVars

NextMain ==
    \/ ResolveUri
    \/ ResolveDb
    \/ PromptCol
    \/ Connect
    \/ MainList
    \/ MainShow
    \/ MainClose

Spec == InitMain /\ [][NextMain]_vars

-----------------------------------------------------------------------------
(* ensureIndex(db, spec), called on a connected db *)

ensureVars == <<variant, argv, env, asked, colName, connected, remote, remote0, fs,
                spec, openaiEnv, text, embCalls, response, result>>

InitEnsure ==
    /\ variant = "ensureIndex"
    /\ argv = NoArgv
    /\ env = [uri |-> TRUE, db |-> TRUE]
    /\ asked = {}
    /\ colName = "-"
    /\ pc = "ensure"
    /\ connected = TRUE
    /\ remote \in [Collections -> SUBSET IndexNames]
    /\ remote0 = remote
    /\ fs \in [Files -> FileContent]
    /\ spec \in {ALL_SPECS[i] : i \in SpecIdx}
    /\ existing = {}
    /\ listThrew = FALSE
    /\ definition = "none"
    /\ ops = <<>>
    /\ log = <<>>
    /\ err = "none"
    /\ openaiEnv = [p \in OpenAIParams |-> FALSE]
    /\ text = "-"
    /\ embCalls = <<>>
    /\ response = [ok |-> FALSE, data |-> <<>>]
    /\ result = <<>>

\* const existingIndexes = await listExistingIndexes(db, spec.col)
EnsureList ==
    /\ pc = "ensure"
    /\ \E fails \in BOOLEAN :
          LET r == ListExistingIndexes(remote, spec.col, fails)
          IN  /\ existing' = r.names
              /\ listThrew' = fails
              /\ log' = log \o r.lines
    /\ ops' = Append(ops, Op("listSearchIndexes", spec.col, "-", "-"))
    /\ pc' = "load"
    /\ UNCHANGED <<definition, err>>
    /\ UNCHANGED ensureVars

\* const definition = loadDefinition(spec.file), then the test of
\* existingIndexes.includes(spec.name); its body is `await indexCollection`
EnsureLoad ==
    /\ pc = "load"
    /\ LET d == LoadDefinition(fs, spec.file)
       IN  \/ /\ d.threw
              /\ pc' = "threw"
              /\ err' = d.error
              /\ UNCHANGED definition
           \/ /\ ~d.threw
              /\ spec.name \in existing
              /\ definition' = d.value
              /\ pc' = "await"
              /\ UNCHANGED err
           \/ /\ ~d.threw
              /\ spec.name \notin existing
              /\ definition' = d.value
              /\ pc' = "returned"
              /\ UNCHANGED err
    /\ ops' = Append(ops, Op("loadDefinition", spec.col, spec.name, spec.file))
    /\ UNCHANGED <<existing, listThrew, log>>
    /\ UNCHANGED ensureVars

\* `await indexCollection` resumes: the collection handle is no promise and
\* no method of it is called
EnsureResume ==
    /\ pc = "await"
    /\ pc' = "returned"
    /\ UNCHANGED <<existing, listThrew, definition, ops, log, err>>
    /\ UNCHANGED ensureVars

NextEnsure ==
    \/ EnsureList
    \/ EnsureLoad
    \/ EnsureResume

SpecEnsure == InitEnsure /\ [][NextEnsure]_vars

-----------------------------------------------------------------------------
(* getEmbeddingFromAzureSDK(text) *)

embedVars == <<variant, argv, env, asked, colName, connected, remote, remote0, fs,
               spec, existing, listThrew, definition, ops, log, openaiEnv, text>>

InitEmbed ==
    /\ variant = "embedding"
    /\ argv = NoArgv
    /\ env = [uri |-> FALSE, db |-> FALSE]
    /\ asked = {}
    /\ colName = "-"
    /\ pc = "construct"
    /\ connected = FALSE
    /\ remote = [c \in Collections |-> {}]
    /\ remote0 = remote
    /\ fs = [f \in Files |-> "{A}"]
    /\ spec = NoSpec
    /\ existing = {}
    /\ listThrew = FALSE
    /\ definition = "none"
    /\ ops = <<>>
    /\ log = <<>>
    /\ err = "none"
    /\ openaiEnv \in [OpenAIParams -> BOOLEAN]
    /\ text \in Texts
    /\ embCalls = <<>>
    /\ response = [ok |-> FALSE, data |-> <<>>]
    /\ result = <<>>

\* the four process.env reads (the `!` is erased at compile time: an unset
\* variable reads as undefined) and new OpenAI({apiKey, baseURL, defaultQuery}).
\* The client constructor rejects an undefined apiKey; it takes an undefined
\* baseURL (its default endpoint) and an undefined api-version query value.
EmbedConstruct ==
    /\ pc = "construct"
    /\ \/ /\ ~openaiEnv["OPENAI_API_KEY"]
          /\ pc' = "threw"
          /\ err' = "OpenAIError: apiKey missing"
       \/ /\ openaiEnv["OPENAI_API_KEY"]
          /\ pc' = "call"
          /\ UNCHANGED err
    /\ UNCHANGED <<embCalls, response, result>>
    /\ UNCHANGED embedVars

\* const res = await client.embeddings.create({ model, input: text });
\* return res.data[0].embedding
EmbedCreate ==
    /\ pc = "call"
    /\ embCalls' = Append(embCalls,
                     [model |-> IF openaiEnv["OPENAI_EMBEDDING_MODEL"] THEN "deployment"
                                ELSE "undefined",
                      input |-> text])
    /\ \E res \in Responses :
          /\ response' = res
          /\ \/ /\ ~res.ok
                /\ pc' = "threw"
                /\ err' = "APIError"
                /\ UNCHANGED result
             \/ /\ res.ok
                /\ res.data = <<>>
                /\ pc' = "threw"
                /\ err' = "TypeError"
                /\ UNCHANGED result
             \/ /\ res.ok
                /\ res.data # <<>>
                /\ pc' = "returned"
                /\ result' = res.data[1]
                /\ UNCHANGED err
    /\ UNCHANGED embedVars

NextEmbed ==
    \/ EmbedConstruct
    \/ EmbedCreate

SpecEmbed == InitEmbed /\ [][NextEmbed]_vars

-----------------------------------------------------------------------------
(* Properties of ensureIndex, checked under SpecEnsure *)

SpecOp(o, sp, d) == Op(o, sp.col, sp.name, d)

BadFile(f) == fs[f] \in {"missing", "not json"}

\* C1: when spec.name is among the names listExistingIndexes returned for
\* spec.col, a returned ensureIndex has issued exactly one
\* updateSearchIndex(spec.name, loaded definition) on that collection and no
\* createSearchIndex.
C1_UpdateWhenPresent ==
    (pc = "returned" /\ spec.name \in existing)
        => Calls = <<SpecOp("updateSearchIndex", spec, definition)>>

\* C2: when spec.name is not among the names listExistingIndexes returned for
\* spec.col, a returned ensureIndex has issued exactly one createSearchIndex
\* carrying the definition loaded from spec.file and no updateSearchIndex.
C2_CreateWhenAbsent ==
    (pc = "returned" /\ spec.name \notin existing)
        => Calls = <<SpecOp("createSearchIndex", spec, definition)>>

\* C4: when listSearchIndexes fails, listExistingIndexes returns the empty
\* list and logs the failure, the failure itself does not end ensureIndex,
\* and the spec then resolves to a create action.
C4_ListFailureMeansCreate ==
    (listThrew /\ pc # "ensure")
        => /\ existing = {}
           /\ \E k \in DOMAIN log : log[k] = Line("Failed to list indexes", spec.col, {})
           /\ (pc = "threw" => BadFile(spec.file))
           /\ (pc = "returned" => Calls = <<SpecOp("createSearchIndex", spec, definition)>>)

\* C10: when the definition file of the spec is missing or not valid JSON,
\* ensureIndex ends by throwing the loader's error, after the listing of the
\* collection was issued, and issues no createSearchIndex / updateSearchIndex.
C10_BadDefinitionPropagates ==
    (BadFile(spec.file) /\ pc \notin {"ensure", "load"})
        => /\ pc = "threw"
           /\ err = (IF fs[spec.file] = "missing" THEN "ENOENT" ELSE "SyntaxError")
           /\ definition = "none"
           /\ ops = <<Op("listSearchIndexes", spec.col, "-", "-"),
                      SpecOp("loadDefinition", spec, spec.file)>>
           /\ Calls = <<>>

\* C10 witness: ensureIndex threw on a file that is not JSON, after a listing
\* that found the index present.
C10_Witness ==
    /\ pc = "threw"
    /\ fs[spec.file] = "not json"
    /\ spec.name \in existing
    /\ Len(ops) = 2

-----------------------------------------------------------------------------
(* Properties of a run of main, checked under Spec *)

Ended == pc \in {"done", "caught"}

\* the specs a run with these flags is to process
Selected == {i \in SpecIdx : argv.only = {} \/ ALL_SPECS[i].col \in argv.only}

OpsOn(i) == {k \in DOMAIN ops : /\ ops[k].col = ALL_SPECS[i].col
                                /\ ops[k].op = "listSearchIndexes"
                                   \/ ops[k].name = ALL_SPECS[i].name}

Loaded(i) == \E k \in DOMAIN ops : ops[k] = SpecOp("loadDefinition", ALL_SPECS[i], ALL_SPECS[i].file)

Reported(i) ==
    \E k \in DOMAIN log : /\ log[k].kind \in {"Would create", "Would update"}
                          /\ log[k].col = ALL_SPECS[i].col
                          /\ log[k].names = {ALL_SPECS[i].name}

\* C3: a run that ended after a successful connect, normally or in the
\* top-level catch handler, has closed the client.
C3_ClosedWhenEnded == Ended => ~connected

\* C5: under --dry-run no createSearchIndex / updateSearchIndex call is
\* issued, and a completed run has reported the intended action of every
\* spec it was to process.
C5_DryRunReportsOnly ==
    argv.dryRun => /\ Calls = <<>>
                   /\ (pc = "done" => \A i \in Selected : Reported(i))

\* C6: under --only=<collections> a completed run has processed exactly the
\* specs of the listed collections, and has performed no list, load, create
\* or update for any other spec.
C6_OnlyListedProcessed ==
    (argv.only # {} /\ pc = "done")
        => \A i \in SpecIdx : IF i \in Selected THEN Loaded(i) ELSE OpsOn(i) = {}

\* C8: the specs are processed one at a time in ALL_SPECS order (the loads
\* occur in list order, each after the listing of its collection), and a run
\* that completed without error has processed every spec.
C8_AllSpecsInOrder ==
    LET loads == SelectSeq(ops, LAMBDA o : o.op = "loadDefinition")
    IN  /\ \A k \in DOMAIN loads : /\ k <= Len(ALL_SPECS)
                                   /\ loads[k] = SpecOp("loadDefinition", ALL_SPECS[k], ALL_SPECS[k].file)
        /\ (pc = "done" /\ err = "none" /\ argv.only = {}) => Len(loads) = Len(ALL_SPECS)

\* C9: the inspection run never mutates remote state: every remote operation
\* it issues is a listing on the prompted collection, no createSearchIndex /
\* updateSearchIndex is issued, and the indexes of every collection are those
\* of the start of the run.
C9_InspectionReadOnly ==
    /\ Calls = <<>>
    /\ remote = remote0
    /\ \A k \in DOMAIN ops : ops[k] = Op("listSearchIndexes", colName, "-", "-")

\* C9 witness: an inspection run of part_000 that listed the collection,
\* printed the definitions of its indexes and closed.
C9_Witness ==
    /\ variant = "part_000"
    /\ pc = "done"
    /\ Len(ops) = 2
    /\ remote[colName] # {}
    /\ log[Len(log)] = Line("Index definitions for", colName, remote[colName])

-----------------------------------------------------------------------------
(* Properties of getEmbeddingFromAzureSDK, checked under SpecEmbed *)

\* C7: the function fails without an embeddings call when any of the four
\* OPENAI_* variables is absent; with all four present it issues exactly one
\* call and, when it returns, returns the embedding of the first result.
C7_MissingParameterFailsEarly ==
    pc \in {"threw", "returned"}
        => IF \E p \in OpenAIParams : ~openaiEnv[p]
           THEN pc = "threw" /\ embCalls = <<>>
           ELSE /\ Len(embCalls) = 1
                /\ (pc = "returned" => result = response.data[1])

====
